---- MODULE Spec2Model ----
(***************************************************************************)
(* A model of app.py: the Flask application object `app`, its three view   *)
(* functions hello / health / ready, the routing the framework performs    *)
(* for them, and the start-up block that reads PORT and runs the server.   *)
(*                                                                         *)
(* Text is modelled as a sequence of one-character strings, so that        *)
(* conversions (int(), JSON encoding and decoding, substring search) are   *)
(* computed and not assumed.  A request path is a sequence of tokens: the  *)
(* token "/" is a slash, any other token stands for a run of characters    *)
(* that holds no slash.                                                    *)
(***************************************************************************)
EXTENDS Integers, Sequences, FiniteSets, TLC

VARIABLES
    pc,             \* position of the module's top-level code
    name_main,      \* TRUE iff the module runs as the main program
    environ,        \* os.environ: a mapping that holds PORT, or nothing
    env_reads,      \* how many times os.environ was read
    raw,            \* the value os.environ.get returned (line 19)
    port,           \* the module global `port` (line 19)
    listener,       \* the port the listening socket was bound with
    error,          \* the exception that ended start-up, if any
    app,            \* the Flask application object (line 4)
    inflight,       \* request contexts being handled, one per worker thread
    last,           \* the latest completed exchange (request and response)
    remembered      \* history: some earlier completed exchange

vars == <<pc, name_main, environ, env_reads, raw, port, listener, error,
          app, inflight, last, remembered>>

\* Python values carry their type, as Python's do
PyNone == [type |-> "NoneType"]
PyInt(n) == [type |-> "int", val |-> n]
PyStr(s) == [type |-> "str", val |-> s]
Raised(e) == [type |-> "exception", exc |-> e]

-----------------------------------------------------------------------------
(* Bounds of the model.                                                    *)

\* longest value of PORT that is tried
MaxLen == 3
\* worker threads handling requests at the same time
MaxInFlight == 2

-----------------------------------------------------------------------------
(* Text helpers.                                                           *)

Digits == {"0", "1", "2", "3", "4", "5", "6", "7", "8", "9"}

DigitVal(c) ==
    CASE c = "0" -> 0 [] c = "1" -> 1 [] c = "2" -> 2 [] c = "3" -> 3
      [] c = "4" -> 4 [] c = "5" -> 5 [] c = "6" -> 6 [] c = "7" -> 7
      [] c = "8" -> 8 [] c = "9" -> 9

\* s.lstrip(c) and s.rstrip(c)
RECURSIVE lstrip(_, _)
lstrip(s, c) == IF s # <<>> /\ Head(s) = c THEN lstrip(Tail(s), c) ELSE s

RECURSIVE rstrip(_, _)
rstrip(s, c) ==
    IF s # <<>> /\ s[Len(s)] = c THEN rstrip(SubSeq(s, 1, Len(s) - 1), c) ELSE s

\* all sequences over S of length at most n
RECURSIVE SeqsUpTo(_, _)
SeqsUpTo(S, n) ==
    IF n = 0 THEN {<<>>}
    ELSE LET shorter == SeqsUpTo(S, n - 1)
         IN  shorter \cup {Append(s, c) : s \in shorter, c \in S}

-----------------------------------------------------------------------------
(* Start-up: lines 18-20 of app.py.                                        *)

\* os.environ is a mapping from names to text; here it holds PORT or nothing
NoEnviron == [k \in {} |-> <<>>]
PortChars == {"8", "0", " ", "-", "_", "a"}
Environs ==
    {NoEnviron} \cup {[k \in {"PORT"} |-> s] : s \in SeqsUpTo(PortChars, MaxLen)}

\* os.environ.get(key, default)
environ_get(env, key, default) ==
    IF key \in DOMAIN env THEN PyStr(env[key]) ELSE default

\* the lookup with another default port
PortLookup8080(env) == environ_get(env, "PORT", PyInt(8080))

\* line 19, the argument of int(): os.environ.get('PORT', 80)
PortLookup(env) == environ_get(env, "PORT", PyInt(80))

\* Python's int() on a str scans it: white space is stripped, one sign is
\* accepted, then decimal digits that single underscores may separate.
\* scan(s, acc, prev) consumes the digits: acc is the value so far, prev is
\* "start", "digit" or "_" (what was consumed last).
RECURSIVE scan(_, _, _)
scan(s, acc, prev) ==
    IF s = <<>> THEN (IF prev = "digit" THEN PyInt(acc) ELSE Raised("ValueError"))
    ELSE IF Head(s) \in Digits
         THEN scan(Tail(s), 10 * acc + DigitVal(Head(s)), "digit")
    ELSE IF Head(s) = "_" /\ prev = "digit" THEN scan(Tail(s), acc, "_")
    ELSE Raised("ValueError")

int_str(s) ==
    LET t == rstrip(lstrip(s, " "), " ")
        neg == t # <<>> /\ Head(t) = "-"
        signed == t # <<>> /\ Head(t) \in {"-", "+"}
        v == scan(IF signed THEN Tail(t) ELSE t, 0, "start")
    IN  IF v.type = "int" /\ neg THEN PyInt(0 - v.val) ELSE v

\* a conversion that falls back to the default port when the text is no number
IntOrDefault(x) ==
    IF x.type = "int" THEN x
    ELSE IF int_str(x.val).type = "exception" THEN PyInt(80) ELSE int_str(x.val)

\* int(x): an int is returned as it is, a str is parsed
int(x) == IF x.type = "int" THEN x ELSE int_str(x.val)

-----------------------------------------------------------------------------
(* JSON, as flask.json encodes a dict of strings and as json.loads reads   *)
(* it back.  A dict is a sequence of <<key, value>> pairs of texts.        *)

\* a JSON string literal: quotes around the text, '"' and '\' escaped
RECURSIVE escape(_)
escape(s) ==
    IF s = <<>> THEN <<>>
    ELSE (IF Head(s) \in {"\"", "\\"} THEN <<"\\", Head(s)>> ELSE <<Head(s)>>)
         \o escape(Tail(s))

quote(s) == <<"\"">> \o escape(s) \o <<"\"">>

\* json.dumps(d, separators=(",", ":")): the compact form Flask's provider
\* writes outside debug mode
RECURSIVE dumps_items(_)
dumps_items(d) ==
    IF d = <<>> THEN <<>>
    ELSE quote(d[1][1]) \o <<":">> \o quote(d[1][2])
         \o (IF Len(d) > 1 THEN <<",">> ELSE <<>>) \o dumps_items(Tail(d))

dumps(d) == <<"{">> \o dumps_items(d) \o <<"}">>

\* json.loads on a flat object of strings.  Every parser returns
\* [ok, val, next]: next is the index after what was read.
Whitespace == {" ", "\n"}

RECURSIVE skip_ws(_, _)
skip_ws(s, i) == IF i <= Len(s) /\ s[i] \in Whitespace THEN skip_ws(s, i + 1) ELSE i

\* the characters of a string literal from index i (after the opening quote)
RECURSIVE string_tail(_, _, _)
string_tail(s, i, acc) ==
    IF i > Len(s) THEN [ok |-> FALSE, val |-> acc, next |-> i]
    ELSE IF s[i] = "\"" THEN [ok |-> TRUE, val |-> acc, next |-> i + 1]
    ELSE IF s[i] = "\\"
         THEN (IF i + 1 <= Len(s) /\ s[i + 1] \in {"\"", "\\"}
               THEN string_tail(s, i + 2, Append(acc, s[i + 1]))
               ELSE [ok |-> FALSE, val |-> acc, next |-> i])
    ELSE string_tail(s, i + 1, Append(acc, s[i]))

parse_string(s, i) ==
    IF i <= Len(s) /\ s[i] = "\"" THEN string_tail(s, i + 1, <<>>)
    ELSE [ok |-> FALSE, val |-> <<>>, next |-> i]

\* the members of an object from index i (after "{" or ","), added to acc
RECURSIVE members(_, _, _)
members(s, i, acc) ==
    LET k == parse_string(s, skip_ws(s, i))
        colon == skip_ws(s, k.next)
        v == parse_string(s, skip_ws(s, colon + 1))
        after == skip_ws(s, v.next)
        \* a repeated key keeps its last value, as in a Python dict
        acc2 == {kv \in acc : kv[1] # k.val} \cup {<<k.val, v.val>>}
    IN  IF ~k.ok \/ colon > Len(s) \/ s[colon] # ":" THEN [ok |-> FALSE, val |-> acc]
        ELSE IF ~v.ok \/ after > Len(s) THEN [ok |-> FALSE, val |-> acc]
        ELSE IF s[after] = "}"
             THEN [ok |-> skip_ws(s, after + 1) > Len(s), val |-> acc2]
        ELSE IF s[after] = "," THEN members(s, after + 1, acc2)
        ELSE [ok |-> FALSE, val |-> acc]

\* json.loads(s): the dict as a set of <<key, value>> pairs
loads(s) ==
    LET open == skip_ws(s, 1)
        first == skip_ws(s, open + 1)
    IN  IF open > Len(s) \/ s[open] # "{" THEN [ok |-> FALSE, val |-> {}]
        ELSE IF first <= Len(s) /\ s[first] = "}"
             THEN [ok |-> skip_ws(s, first + 1) > Len(s), val |-> {}]
        ELSE members(s, open + 1, {})

\* `needle in haystack` for texts
Contains(haystack, needle) ==
    \E i \in 1..(Len(haystack) - Len(needle) + 1) :
        SubSeq(haystack, i, i + Len(needle) - 1) = needle

-----------------------------------------------------------------------------
(* The application object and its URL map: lines 4-16 of app.py.           *)

\* the files under the application's static folder: the repository has none
StaticFolder == {}

\* Flask(__name__): a fresh application.  Its URL map starts with the rule
\* for static files, which Flask adds for the default static folder.
Flask ==
    [url_map |-> << [rule |-> <<"/", "static", "/", "<path:filename>">>,
                     endpoint |-> "static",
                     methods |-> {"GET", "HEAD", "OPTIONS"}] >>,
     config |-> [TESTING |-> FALSE],
     got_first_request |-> FALSE]

\* a route that also answers POST
RouteWithPost(a, rule, endpoint) ==
    [a EXCEPT !.url_map = Append(@, [rule |-> rule, endpoint |-> endpoint,
                                     methods |-> {"GET", "HEAD", "OPTIONS", "POST"}])]

\* @app.route(rule) on a view function: no methods are given, so the rule
\* takes GET, to which Flask adds OPTIONS and the rule itself adds HEAD
route(a, rule, endpoint) ==
    [a EXCEPT !.url_map = Append(@, [rule |-> rule, endpoint |-> endpoint,
                                     methods |-> {"GET"} \cup {"OPTIONS"} \cup {"HEAD"}])]

\* the application once the module's lines 4-16 have run
ImportedApp ==
    route(route(route(Flask, <<"/">>, "hello"),
                <<"/", "health">>, "health"),
          <<"/", "ready">>, "ready")

-----------------------------------------------------------------------------
(* URL matching, as the framework's router does it.                        *)

\* re.sub("/{2,}?", "/", path): each pair of adjacent slashes becomes one,
\* scanning from the left (three slashes in a row leave two)
RECURSIVE merge_slashes(_)
merge_slashes(path) ==
    IF Len(path) >= 2 /\ path[1] = "/" /\ path[2] = "/"
    THEN <<"/">> \o merge_slashes(SubSeq(path, 3, Len(path)))
    ELSE IF path = <<>> THEN <<>>
    ELSE <<Head(path)>> \o merge_slashes(Tail(path))

\* a rule that matches a path case-insensitively and with or without a
\* trailing slash
LooseRuleMatches(rule, path) ==
    LET lower(t) == IF t = "Health" THEN "health" ELSE t
        p == [i \in 1..Len(path) |-> lower(path[i])]
        q == IF Len(p) > 1 /\ p[Len(p)] = "/" THEN SubSeq(p, 1, Len(p) - 1) ELSE p
    IN  q = rule.rule

\* does `rule` match `path`?  A rule without a converter matches the same
\* text only (strict slashes: no trailing slash is added or dropped).  The
\* converter <path:filename> matches [^/].*: any text that is not empty and
\* does not start with a slash.
RuleMatches(rule, path) ==
    LET r == rule.rule
        n == Len(r)
    IN  IF r[n] = "<path:filename>"
        THEN /\ Len(path) >= n
             /\ SubSeq(path, 1, n - 1) = SubSeq(r, 1, n - 1)
             /\ path[n] # "/"
        ELSE path = r

\* the first rule of the map that matches the path and allows the method;
\* 0 if there is none
FirstMatch(url_map, method, path) ==
    LET hits == {i \in 1..Len(url_map) :
                    RuleMatches(url_map[i], path) /\ method \in url_map[i].methods}
    IN  IF hits = {} THEN 0 ELSE CHOOSE i \in hits : \A j \in hits : i <= j

\* the methods of the rules that match the path
AllowedMethods(url_map, path) ==
    UNION {url_map[i].methods : i \in {j \in 1..Len(url_map) : RuleMatches(url_map[j], path)}}

\* MapAdapter.match: leading slashes are reduced to one, the rules are
\* tried, then tried again with the slashes merged (a hit there is a
\* redirect to the merged path); a path that only matches rules of other
\* methods is MethodNotAllowed, any other is NotFound.
match(url_map, method, path_info) ==
    LET path == <<"/">> \o lstrip(path_info, "/")
        hit == FirstMatch(url_map, method, path)
        merged == merge_slashes(path)
    IN  IF hit # 0
        THEN [kind |-> "rule", endpoint |-> url_map[hit].endpoint,
              filename |-> IF url_map[hit].endpoint = "static"
                           THEN SubSeq(path, Len(url_map[hit].rule), Len(path))
                           ELSE <<>>]
        ELSE IF FirstMatch(url_map, method, merged) # 0
        THEN [kind |-> "RequestRedirect", new_path |-> merged]
        ELSE IF AllowedMethods(url_map, path) \cup AllowedMethods(url_map, merged) # {}
        THEN [kind |-> "MethodNotAllowed"]
        ELSE [kind |-> "NotFound"]

-----------------------------------------------------------------------------
(* The view functions: lines 6-16 of app.py.  A view function runs with    *)
(* the application and the current request in reach (Flask's `app`,        *)
(* `request`); it returns its value and leaves the application as the      *)
(* second component, so that a view that wrote to it could be told apart.  *)

HelloText ==
    <<"H", "e", "l", "l", "o", ",", " ", "f", "r", "o", "m", " ",
      "F", "i", "n", "c", "r", "a", "!">>
Status == <<"s", "t", "a", "t", "u", "s">>
Healthy == <<"h", "e", "a", "l", "t", "h", "y">>
Ready == <<"r", "e", "a", "d", "y">>

PyDict(d) == [type |-> "dict", val |-> d]
PyTuple(body, status) == [type |-> "tuple", body |-> body, status |-> status]

\* a greeting cut short
HelloShort(a, request) == [rv |-> PyStr(SubSeq(HelloText, 1, 5)), app |-> a]

\* a greeting that is set up by the first call: it answers differently until
\* it has run once, and records that in the application's configuration
HelloOnce(a, request) ==
    [rv |-> IF a.config.TESTING THEN PyStr(HelloText) ELSE PyStr(<<"i", "n", "i", "t">>),
     app |-> [a EXCEPT !.config.TESTING = TRUE]]

hello(a, request) == [rv |-> PyStr(HelloText), app |-> a]

\* a health report with one more key
HealthVerbose(a, request) ==
    [rv |-> PyTuple(PyDict(<< <<Status, Healthy>>, <<<<"u", "p">>, <<"1">>>> >>), 200),
     app |-> a]

\* a health report that echoes the query string
HealthEcho(a, request) ==
    [rv |-> PyTuple(PyDict(<< <<Status, Healthy \o request.query>> >>), 200), app |-> a]

health(a, request) == [rv |-> PyTuple(PyDict(<< <<Status, Healthy>> >>), 200), app |-> a]

\* a readiness report that depends on the application's configuration
ReadyLate(a, request) ==
    [rv |-> IF a.config.TESTING
            THEN PyTuple(PyDict(<< <<Status, Ready>> >>), 200)
            ELSE PyTuple(PyDict(<< <<Status, <<"n", "o">> >> >>), 503),
     app |-> a]

ready(a, request) == [rv |-> PyTuple(PyDict(<< <<Status, Ready>> >>), 200), app |-> a]

\* Flask's view for the static rule: the named file of the static folder,
\* NotFound if there is none
send_static_file(a, request, filename) ==
    [rv |-> IF filename \in StaticFolder
            THEN PyStr(filename)
            ELSE Raised("NotFound"),
     app |-> a]

-----------------------------------------------------------------------------
(* From a view's return value to the response.                             *)

\* the page an HTTP exception renders to, with its status code; the page of
\* a redirect names the URL it points to
http_exception(exc, url) ==
    CASE exc = "NotFound" ->
            [status |-> 404, body |-> <<"404 Not Found">>, mimetype |-> "text/html"]
      [] exc = "MethodNotAllowed" ->
            [status |-> 405, body |-> <<"405 Method Not Allowed">>, mimetype |-> "text/html"]
      [] exc = "RequestRedirect" ->
            [status |-> 308, body |-> <<"Redirecting to ">> \o url, mimetype |-> "text/html"]

\* app.make_response(rv): a str is the body of a 200 text/html response, a
\* dict is encoded as JSON (with a final newline), a (body, status) tuple
\* is the response of its body with the status replaced
RECURSIVE make_response(_)
make_response(rv) ==
    CASE rv.type = "str" ->
            [status |-> 200, body |-> rv.val, mimetype |-> "text/html"]
      [] rv.type = "dict" ->
            [status |-> 200, body |-> dumps(rv.val) \o <<"\n">>,
             mimetype |-> "application/json"]
      [] rv.type = "tuple" ->
            [make_response(rv.body) EXCEPT !.status = rv.status]
      [] rv.type = "response" -> rv.val
      [] rv.type = "exception" -> http_exception(rv.exc, rv.url)

\* the URL a redirect points to: the new path, and the query string if any
make_redirect_url(new_path, query) ==
    IF query = <<>> THEN new_path ELSE new_path \o <<"?">> \o query

\* app.dispatch_request for a matched request `m`: a routing exception is
\* raised again, OPTIONS is answered by Flask itself, any other method
\* calls the endpoint's view function.  `view` names the function that ran.
dispatch_request(a, request, m) ==
    IF m.kind = "RequestRedirect"
    THEN [rv |-> [type |-> "exception", exc |-> m.kind,
                  url |-> make_redirect_url(m.new_path, request.query)],
          app |-> a, view |-> "None"]
    ELSE IF m.kind # "rule"
    THEN [rv |-> [type |-> "exception", exc |-> m.kind, url |-> <<>>],
          app |-> a, view |-> "None"]
    ELSE IF request.method = "OPTIONS"
    THEN [rv |-> [type |-> "response",
                  val |-> [status |-> 200, body |-> <<>>, mimetype |-> "text/html"]],
          app |-> a, view |-> "None"]
    ELSE LET r == CASE m.endpoint = "hello" -> hello(a, request)
                    [] m.endpoint = "health" -> health(a, request)
                    [] m.endpoint = "ready" -> ready(a, request)
                    [] m.endpoint = "static" -> send_static_file(a, request, m.filename)
         IN  [rv |-> IF r.rv.type = "exception"
                     THEN [type |-> "exception", exc |-> r.rv.exc, url |-> <<>>]
                     ELSE r.rv,
              app |-> r.app, view |-> m.endpoint]

\* the response as it is sent: a HEAD request gets no body
finalize_request(request, rv) ==
    LET response == make_response(rv)
    IN  IF request.method = "HEAD" THEN [response EXCEPT !.body = <<>>] ELSE response

\* app.wsgi_app: the request context is pushed (the URL is matched), the
\* application notes that a request has come, the request is dispatched and
\* the response finalized
wsgi_app(a, request) ==
    LET m == match(a.url_map, request.method, request.path)
        d == dispatch_request([a EXCEPT !.got_first_request = TRUE], request, m)
    IN  [app |-> d.app, view |-> d.view, response |-> finalize_request(request, d.rv)]

-----------------------------------------------------------------------------
(* The module's top-level code, line by line.                              *)

Flask_init ==
    /\ pc = "L4"
    /\ app' = Flask
    /\ pc' = "L6"
    /\ UNCHANGED <<name_main, environ, env_reads, raw, port, listener, error,
                   inflight, last, remembered>>

route_hello ==
    /\ pc = "L6"
    /\ app' = route(app, <<"/">>, "hello")
    /\ pc' = "L10"
    /\ UNCHANGED <<name_main, environ, env_reads, raw, port, listener, error,
                   inflight, last, remembered>>

route_health ==
    /\ pc = "L10"
    /\ app' = route(app, <<"/", "health">>, "health")
    /\ pc' = "L14"
    /\ UNCHANGED <<name_main, environ, env_reads, raw, port, listener, error,
                   inflight, last, remembered>>

route_ready ==
    /\ pc = "L14"
    /\ app' = route(app, <<"/", "ready">>, "ready")
    /\ pc' = "L18"
    /\ UNCHANGED <<name_main, environ, env_reads, raw, port, listener, error,
                   inflight, last, remembered>>

\* line 18: if __name__ == "__main__"
main_guard ==
    /\ pc = "L18"
    /\ pc' = IF name_main THEN "L19" ELSE "imported"
    /\ UNCHANGED <<name_main, environ, env_reads, raw, port, listener, error,
                   app, inflight, last, remembered>>

\* line 19, first half: os.environ.get('PORT', 80)
environ_lookup ==
    /\ pc = "L19"
    /\ raw' = PortLookup(environ)
    /\ env_reads' = env_reads + 1
    /\ pc' = "L19int"
    /\ UNCHANGED <<name_main, environ, port, listener, error,
                   app, inflight, last, remembered>>

\* line 19, second half: port = int(...); a ValueError ends the program
int_convert ==
    /\ pc = "L19int"
    /\ LET v == int(raw)
       IN  IF v.type = "exception"
           THEN /\ error' = v.exc
                /\ pc' = "crashed"
                /\ port' = port
           ELSE /\ port' = v
                /\ pc' = "L20"
                /\ error' = error
    /\ UNCHANGED <<name_main, environ, env_reads, raw, listener,
                   app, inflight, last, remembered>>

\* line 20: app.run(host='0.0.0.0', port=port) binds the listening socket
\* with `port`; a number that is no TCP port is an OverflowError
app_run ==
    /\ pc = "L20"
    /\ IF port.val \in 0..65535
       THEN /\ listener' = port
            /\ pc' = "serving"
            /\ error' = error
       ELSE /\ error' = "OverflowError"
            /\ pc' = "crashed"
            /\ listener' = listener
    /\ UNCHANGED <<name_main, environ, env_reads, raw, port,
                   app, inflight, last, remembered>>

\* line 20, when the system refuses the bind (the port is taken, or is a
\* privileged one)
app_run_refused ==
    /\ pc = "L20"
    /\ port.val \in 0..65535
    /\ error' = "OSError"
    /\ pc' = "crashed"
    /\ UNCHANGED <<name_main, environ, env_reads, raw, port, listener,
                   app, inflight, last, remembered>>

Threads == 1..MaxInFlight
Idle == [stage |-> "idle"]
NoExchange == [type |-> "NoneType"]

\* the module starts to run, as the main program or imported, with PORT set
\* to some text or not set
InitStartup ==
    /\ pc = "L4"
    /\ name_main \in BOOLEAN
    /\ environ \in Environs
    /\ env_reads = 0
    /\ raw = PyNone
    /\ port = PyNone
    /\ listener = PyNone
    /\ error = "None"
    /\ app = PyNone
    /\ inflight = [t \in Threads |-> Idle]
    /\ last = NoExchange
    /\ remembered = NoExchange

NextStartup ==
    \/ Flask_init
    \/ route_hello
    \/ route_health
    \/ route_ready
    \/ main_guard
    \/ environ_lookup
    \/ int_convert
    \/ app_run
    \/ app_run_refused

SpecStartup == InitStartup /\ [][NextStartup]_vars

-----------------------------------------------------------------------------
(* Requests.  A request is what the WSGI environ holds of it: the method,  *)
(* PATH_INFO, the query string, the headers and the body.                  *)

DefinedPaths == {<<"/">>, <<"/", "health">>, <<"/", "ready">>}

Paths ==
    DefinedPaths \cup
    { <<"/", "health", "/">>,            \* /health/
      <<"/", "Health">>,                 \* /Health
      <<"/", "ready", "/", "x">>,        \* /ready/x
      <<"/", "nonexistent">>,            \* /nonexistent
      <<"/", "/", "health">>,            \* //health
      <<"/", "/", "/", "ready">>,        \* ///ready
      <<"/", "/">>,                      \* //
      <<"/", "health", "/", "/">>,       \* /health//
      <<"/", "static">>,                 \* /static
      <<"/", "static", "/">>,            \* /static/
      <<"/", "static", "/", "x">>,       \* /static/x
      <<"/", "static", "/", "/", "x">>,  \* /static//x
      <<"/", "static", "/", "/", "/", "x">> }   \* /static///x

Methods == {"GET", "HEAD", "OPTIONS", "POST"}

Request(method, path, query, headers, data) ==
    [method |-> method, path |-> path, query |-> query, headers |-> headers,
     data |-> data]

\* a GET of every path, plain or with a query string, a header or a body
\* added; every other method plain
Requests ==
    {Request("GET", p, q, {}, <<>>) : p \in Paths, q \in {<<>>, <<"a", "=", "1">>}}
    \cup {Request("GET", p, <<>>, {"X-Probe"}, <<>>) : p \in Paths}
    \cup {Request("GET", p, <<>>, {}, <<"x">>) : p \in Paths}
    \cup {Request(m, p, <<>>, {}, <<>>) : m \in Methods, p \in Paths}

\* the requests tried when several are handled at once
ConcurrentRequests ==
    {Request("GET", p, <<>>, {}, <<>>) :
        p \in DefinedPaths \cup {<<"/", "nonexistent">>}}
    \cup {Request("POST", <<"/">>, <<>>, {}, <<>>)}

\* a completed exchange; `first` tells that no request had come before it
Exchange(request, r, first) ==
    [type |-> "exchange", request |-> request, response |-> r.response,
     view |-> r.view, first |-> first]

-----------------------------------------------------------------------------
(* Serving, one request at a time: the test client, or a server that       *)
(* handles each request to its end before the next.                        *)

\* a request is handled from its arrival to its response.  The history
\* variable `remembered` may keep the exchange that `last` held, if it was
\* with one of the three defined paths.
handle_request ==
    /\ pc \in {"serving", "imported"}
    /\ \E request \in Requests :
          \E r \in {wsgi_app(app, request)} :
              /\ app' = r.app
              /\ last' = Exchange(request, r, ~app.got_first_request)
    /\ \/ remembered' = remembered
       \/ /\ last # NoExchange
          /\ last.request.path \in DefinedPaths
          /\ remembered' = last
    /\ UNCHANGED <<pc, name_main, environ, env_reads, raw, port, listener, error,
                   inflight>>

\* the module has been imported by the test client (test_app.py sets
\* TESTING), or has run as the main program with PORT not set
Init ==
    /\ \/ /\ pc = "imported"
          /\ name_main = FALSE
          /\ env_reads = 0
          /\ raw = PyNone
          /\ port = PyNone
          /\ listener = PyNone
          /\ app = [ImportedApp EXCEPT !.config.TESTING = TRUE]
       \/ /\ pc = "serving"
          /\ name_main = TRUE
          /\ env_reads = 1
          /\ raw = PyInt(80)
          /\ port = PyInt(80)
          /\ listener = PyInt(80)
          /\ app = ImportedApp
    /\ environ = NoEnviron
    /\ error = "None"
    /\ inflight = [t \in Threads |-> Idle]
    /\ last = NoExchange
    /\ remembered = NoExchange

Next == handle_request

Spec == Init /\ [][Next]_vars

-----------------------------------------------------------------------------
(* Serving with several worker threads: each thread takes a request        *)
(* through the stages of wsgi_app, and the threads' stages interleave.     *)

\* the server hands a request to an idle thread, which pushes the request
\* context: the URL is matched.  app0 keeps the application as it was then.
accept(t) ==
    /\ pc \in {"serving", "imported"}
    /\ inflight[t] = Idle
    /\ \E request \in ConcurrentRequests :
          inflight' = [inflight EXCEPT ![t] =
                          [stage |-> "pushed", request |-> request, app0 |-> app,
                           m |-> match(app.url_map, request.method, request.path)]]
    /\ UNCHANGED <<pc, name_main, environ, env_reads, raw, port, listener, error,
                   app, last, remembered>>

\* full_dispatch_request begins: the application notes that a request came
preprocess(t) ==
    /\ inflight[t].stage = "pushed"
    /\ app' = [app EXCEPT !.got_first_request = TRUE]
    /\ inflight' = [inflight EXCEPT ![t].stage = "dispatching"]
    /\ UNCHANGED <<pc, name_main, environ, env_reads, raw, port, listener, error,
                   last, remembered>>

\* the view function runs, on the application as it is now
dispatch(t) ==
    /\ inflight[t].stage = "dispatching"
    /\ LET d == dispatch_request(app, inflight[t].request, inflight[t].m)
       IN  /\ app' = d.app
           /\ inflight' = [inflight EXCEPT ![t] =
                  [stage |-> "dispatched", request |-> inflight[t].request,
                   app0 |-> inflight[t].app0, rv |-> d.rv, view |-> d.view]]
    /\ UNCHANGED <<pc, name_main, environ, env_reads, raw, port, listener, error,
                   last, remembered>>

\* the return value becomes the response
finalize(t) ==
    /\ inflight[t].stage = "dispatched"
    /\ inflight' = [inflight EXCEPT ![t] =
          [stage |-> "responded", request |-> inflight[t].request,
           app0 |-> inflight[t].app0, view |-> inflight[t].view,
           response |-> finalize_request(inflight[t].request, inflight[t].rv)]]
    /\ UNCHANGED <<pc, name_main, environ, env_reads, raw, port, listener, error,
                   app, last, remembered>>

\* the response is sent and the thread is free again
send(t) ==
    /\ inflight[t].stage = "responded"
    /\ inflight' = [inflight EXCEPT ![t] = Idle]
    /\ UNCHANGED <<pc, name_main, environ, env_reads, raw, port, listener, error,
                   app, last, remembered>>

\* what thread t does next, once it holds a request
step(t) == preprocess(t) \/ dispatch(t) \/ finalize(t) \/ send(t)

NextConc == \E t \in Threads : accept(t) \/ step(t)

SpecConc == Init /\ [][NextConc]_vars

-----------------------------------------------------------------------------
(* The properties.  The texts they name are written out here, apart from   *)
(* the texts of the view functions.                                        *)

Get(x, path) ==
    /\ x # NoExchange
    /\ x.request.method = "GET"
    /\ x.request.path = path

Text_status == <<"s", "t", "a", "t", "u", "s">>

\* C1: every GET of / is answered 200 with a body that contains the text
\* `Hello, from Fincra!`, whatever the server's state and earlier requests.
C1_HelloAlways ==
    Get(last, <<"/">>) =>
        /\ last.response.status = 200
        /\ Contains(last.response.body,
                    <<"H", "e", "l", "l", "o", ",", " ", "f", "r", "o", "m", " ",
                      "F", "i", "n", "c", "r", "a", "!">>)

\* a GET of / with a query string, after earlier requests, answered 200
C1_Witness ==
    /\ Get(last, <<"/">>)
    /\ ~last.first
    /\ last.request.query # <<>>
    /\ last.response.status = 200

\* C2: every GET of /health is answered 200 with a JSON body that parses to
\* exactly {"status": "healthy"}.
C2_HealthAlways ==
    Get(last, <<"/", "health">>) =>
        /\ last.response.status = 200
        /\ loads(last.response.body).ok
        /\ loads(last.response.body).val =
              {<<Text_status, <<"h", "e", "a", "l", "t", "h", "y">>>>}

\* a GET of /health after earlier requests, answered with a JSON object
C2_Witness ==
    /\ Get(last, <<"/", "health">>)
    /\ ~last.first
    /\ last.response.mimetype = "application/json"
    /\ Cardinality(loads(last.response.body).val) = 1

\* C3: every GET of /ready, the very first request included, is answered 200
\* with a JSON body that parses to exactly {"status": "ready"}.
C3_ReadyAlways ==
    Get(last, <<"/", "ready">>) =>
        /\ last.response.status = 200
        /\ loads(last.response.body).ok
        /\ loads(last.response.body).val =
              {<<Text_status, <<"r", "e", "a", "d", "y">>>>}

\* a GET of /ready that is the first request the server handles
C3_Witness ==
    /\ Get(last, <<"/", "ready">>)
    /\ last.first
    /\ last.response.mimetype = "application/json"
    /\ loads(last.response.body).ok

\* the path holds no two slashes in a row
NoDoubleSlash(path) == \A i \in 1..(Len(path) - 1) : ~(path[i] = "/" /\ path[i + 1] = "/")

\* C4 as stated: a GET of any path that is not exactly /, /health or /ready
\* runs no handler and is answered 404.
C4_ExactMatchOnly ==
    (last # NoExchange /\ last.request.method = "GET"
        /\ last.request.path \notin DefinedPaths) =>
        /\ last.response.status = 404
        /\ last.view = "None"

\* C4 amended: a GET of a path that holds no two slashes in a row and is not
\* exactly /, /health or /ready runs none of hello, health, ready and is
\* answered 404.
C4_NearMissesNotFound ==
    (last # NoExchange /\ last.request.method = "GET"
        /\ last.request.path \notin DefinedPaths
        /\ NoDoubleSlash(last.request.path)) =>
        /\ last.response.status = 404
        /\ last.view \notin {"hello", "health", "ready"}

\* the near-misses /health/, /Health and /ready/x are answered 404
C4_Witness ==
    /\ last # NoExchange
    /\ last.request.method = "GET"
    /\ last.request.path \in {<<"/", "health", "/">>, <<"/", "Health">>,
                              <<"/", "ready", "/", "x">>}
    /\ last.response.status = 404

\* C6: two identical requests to one of the three defined routes get the
\* same status and the same body, whatever was served between them.
C6_Idempotent ==
    (last # NoExchange /\ remembered # NoExchange
        /\ last.request = remembered.request) =>
        /\ last.response.status = remembered.response.status
        /\ last.response.body = remembered.response.body

\* the same GET of / seen twice, both answered 200
C6_Witness ==
    /\ Get(last, <<"/">>)
    /\ remembered # NoExchange
    /\ remembered.request = last.request
    /\ remembered.first
    /\ last.response.status = 200

StandardMethods == {"GET", "HEAD", "OPTIONS"}
UnderStatic(path) == Len(path) >= 3 /\ SubSeq(path, 1, 3) = <<"/", "static", "/">>

\* C7 as stated: every response status is 200 or 404.
C7_Only200Or404 ==
    last # NoExchange => last.response.status \in {200, 404}

\* C7 amended: every response status is 200, 404, 405 or 308; 405 is never
\* the answer to GET, HEAD or OPTIONS and is the answer to any other method
\* on /, /health and /ready; any method on a path that holds no two slashes
\* in a row, is none of the three and is not under /static/ is answered 404.
C7_RouterStatuses ==
    last # NoExchange =>
        /\ last.response.status \in {200, 404, 405, 308}
        /\ last.request.method \in StandardMethods => last.response.status # 405
        /\ (last.request.path \in DefinedPaths
                /\ last.request.method \notin StandardMethods)
               => last.response.status = 405
        /\ (last.request.path \notin DefinedPaths
                /\ NoDoubleSlash(last.request.path)
                /\ ~UnderStatic(last.request.path))
               => last.response.status = 404

\* a POST of /health is answered 405
C7_Witness ==
    /\ last # NoExchange
    /\ last.request.method = "POST"
    /\ last.request.path = <<"/", "health">>
    /\ last.response.status = 405

SameAnswer(x, y) ==
    /\ x.response.status = y.response.status
    /\ x.response.body = y.response.body

\* C8 as stated: two GET requests of the same path get the same status and
\* body, whatever their query strings, headers and bodies.
C8_PathAlone ==
    [][(last # NoExchange /\ last.request.method = "GET"
          /\ last'.request.method = "GET"
          /\ last'.request.path = last.request.path)
        => SameAnswer(last, last')]_vars

\* C8 amended: two GET requests of the same path, a path that holds no two
\* slashes in a row, get the same status and body, whatever their query
\* strings, headers and bodies.
C8_PathAloneUnlessRedirected ==
    [][(last # NoExchange /\ last.request.method = "GET"
          /\ last'.request.method = "GET"
          /\ last'.request.path = last.request.path
          /\ NoDoubleSlash(last.request.path))
        => SameAnswer(last, last')]_vars

\* a GET of /health with a query string answered as an earlier plain one
C8_Witness ==
    /\ Get(last, <<"/", "health">>)
    /\ last.request.query # <<>>
    /\ Get(remembered, <<"/", "health">>)
    /\ remembered.request.query = <<>>
    /\ remembered.request.headers = {}
    /\ SameAnswer(last, remembered)

-----------------------------------------------------------------------------
(* Start-up properties.  What text denotes an integer is stated here as a  *)
(* grammar, apart from the scan that int() performs.                       *)

PortSet == "PORT" \in DOMAIN environ

\* the digits of a text, underscores left out
RECURSIVE DigitsOf(_)
DigitsOf(s) ==
    IF s = <<>> THEN <<>>
    ELSE (IF Head(s) \in Digits THEN <<Head(s)>> ELSE <<>>) \o DigitsOf(Tail(s))

\* the number a row of digits denotes
RECURSIVE DecimalValue(_)
DecimalValue(d) ==
    IF d = <<>> THEN 0
    ELSE DigitVal(d[1]) * 10 ^ (Len(d) - 1) + DecimalValue(Tail(d))

\* digits, with single underscores between digits allowed
DigitGroup(c) ==
    /\ c # <<>>
    /\ c[1] \in Digits
    /\ c[Len(c)] \in Digits
    /\ \A i \in 1..Len(c) : c[i] \in Digits \cup {"_"}
    /\ \A i \in 1..(Len(c) - 1) : ~(c[i] = "_" /\ c[i + 1] = "_")

\* the places <<i, j>> of s such that s is blanks, then from i to j an
\* optional sign and a digit group, then blanks
IntegerCores(s) ==
    {c \in (1..Len(s)) \X (1..Len(s)) :
        /\ c[1] <= c[2]
        /\ \A k \in 1..(c[1] - 1) : s[k] = " "
        /\ \A k \in (c[2] + 1)..Len(s) : s[k] = " "
        /\ LET core == SubSeq(s, c[1], c[2])
           IN  DigitGroup(IF core[1] \in {"-", "+"} THEN Tail(core) ELSE core)}

\* the text denotes an integer
IsIntegerText(s) == IntegerCores(s) # {}

\* the integer that an integer text denotes
Denoted(s) ==
    LET c == CHOOSE c \in IntegerCores(s) : TRUE
        core == SubSeq(s, c[1], c[2])
    IN  IF core[1] = "-" THEN 0 - DecimalValue(DigitsOf(core))
        ELSE DecimalValue(DigitsOf(core))

\* the program has called app.run: the bind was tried with `port`
RunCalled == pc \in {"L20", "serving"} \/ error \in {"OverflowError", "OSError"}

\* C5: run as the main program, the server binds with the integer PORT
\* denotes, or with 80 when PORT is not set; the environment is read once,
\* before the listener is bound.
C5_PortSelection ==
    /\ (RunCalled /\ ~PortSet) => port = PyInt(80)
    /\ (RunCalled /\ PortSet /\ IsIntegerText(environ["PORT"])) =>
          port = PyInt(Denoted(environ["PORT"]))
    /\ listener # PyNone => (listener = port /\ RunCalled)
    /\ env_reads <= 1
    /\ (RunCalled \/ listener # PyNone) => env_reads = 1
    /\ ~name_main => (env_reads = 0 /\ listener = PyNone)

\* PORT=808: the listener is bound with 808
C5_Witness ==
    /\ pc = "serving"
    /\ PortSet
    /\ environ["PORT"] = <<"8", "0", "8">>
    /\ listener = PyInt(808)

\* C10: when PORT is set to a text that denotes no integer, the conversion
\* fails with a ValueError: `port` is never assigned (no fall-back to 80),
\* app.run is never called and no listener is bound.
C10_BadPortFails ==
    (PortSet /\ ~IsIntegerText(environ["PORT"])) =>
        /\ port = PyNone
        /\ listener = PyNone
        /\ ~RunCalled
        /\ pc \notin {"L20", "serving"}
        /\ (name_main /\ env_reads = 1 /\ pc # "L19int") =>
              (pc = "crashed" /\ error = "ValueError")

\* PORT set to the empty text: start-up ends with a ValueError, nothing bound
C10_Witness ==
    /\ PortSet
    /\ environ["PORT"] = <<>>
    /\ pc = "crashed"
    /\ error = "ValueError"
    /\ listener = PyNone

-----------------------------------------------------------------------------
(* Concurrency.                                                            *)

\* C9: however the threads' stages interleave, the response of each request
\* is the one it gets when handled alone (from the application as it was
\* when the request arrived), and a thread that holds a request can always
\* take its next step: it waits for no other thread.
C9_NoInterference ==
    \A t \in Threads :
        /\ inflight[t].stage = "responded" =>
              LET alone == wsgi_app(inflight[t].app0, inflight[t].request)
              IN  /\ inflight[t].response = alone.response
                  /\ inflight[t].view = alone.view
        /\ inflight[t].stage # "idle" => ENABLED step(t)

\* two threads hold a request at once: one has its response while the other
\* is still between matching and dispatching
C9_Witness ==
    \E t, u \in Threads :
        /\ inflight[t].stage = "responded"
        /\ inflight[t].response.status = 200
        /\ inflight[u].stage \in {"pushed", "dispatching"}
        /\ inflight[u].request = inflight[t].request

====
